---- MODULE Spec2Model ----
(***************************************************************************)
(* Model of the CPU core governor of linzj/RustToy:                        *)
(*   src/src/control.rs    CoreStateController, ECoreState, PCoreState     *)
(*   src/src/cpu_event.rs  CpuMonitor (sampler threads), SpinLooper        *)
(* Threads: the governor (CoreStateController::run), two CpuMonitor worker *)
(* threads and one SpinLooper thread per efficiency core.  Time is counted *)
(* in whole seconds.                                                       *)
(***************************************************************************)
EXTENDS Integers, Sequences, FiniteSets, TLC

\* ---------------------------------------------------------------- bounds
NumECores == 1
NumPCores == 1
MaxQueue == 1
\* the stopwatches on last_event_time stop counting at MaxAge seconds
MaxAge == 11
\* cores handed to a monitor, or to the pool, when it is run on its own
NumSampled == 3

\* ------------------------------------------------------ program constants
RecvTimeoutSecs == 10
HysteresisSecs == 10
SampleSecs == 1
\* value >= 100.0, readings kept in tenths of a percent
FullLoad == 1000

\* a stopwatch that is not running
NoTime == 0 - 1

\* a count of sends that is not kept
NoCount == 0 - 1

\* the count of sends is kept up to here
SentCap == 2

Min(a, b) == IF a < b THEN a ELSE b

\* one more second on a running stopwatch, which stops counting at cap
Older(t, cap) == IF t = NoTime THEN NoTime ELSE Min(t + 1, cap)

\* ------------------------------------------------------------- topology
\* CoreStateController::new(e_core_ids, rest_of_cores)
e_core_ids == [i \in 1..NumECores |-> i - 1]
rest_of_cores == [i \in 1..NumPCores |-> NumECores + i - 1]

EffMon == "efficiency_monitor"
PerfMon == "performance_monitor"
Monitors == {EffMon, PerfMon}

\* every core id a keep-alive thread can be pinned to
ECoreSet == 0..(NumECores - 1)

\* a match on event_type whose two arms build the same variant
EventTag_OneVariant(m) == "EfficiencyCoreMonitor"

\* CpuEvent variant sent by a monitor, from its event_type
EventTag(m) == IF m = EffMon THEN "EfficiencyCoreMonitor" ELSE "PerformanceCoreMonitor"

SeqRange(s) == {s[i] : i \in 1..Len(s)}

VARIABLES
    pc,               \* position of the governor thread in run()/handle()
    current_state,    \* the CoreState object being run: ECoreState or PCoreState
    elapsed,          \* PCoreState.last_event_time.elapsed() (NoTime: no PCoreState)
    waited,           \* seconds since the pending recv_timeout was called
    recv_result,      \* what the last recv()/recv_timeout() returned
    receiver,         \* the mpsc channel's buffered events, oldest first
    active,           \* CpuMonitor.active flag, per monitor
    worker,           \* position of each CpuMonitor worker thread
    slept,            \* seconds a worker has been in its one second sleep
    read_index,       \* counter_handles_index of a worker's read loop
    fully_consumed_cores, \* the list a worker's read loop is building
    handles,          \* SpinLooper.handles: core id of every unjoined thread
    should_stop,      \* SpinLooper.should_stop
    spin,             \* per efficiency core: state of its spinning thread
    cores_to_monitor, \* CpuMonitor.cores_to_monitor, per monitor
    core_ids,         \* SpinLooper.core_ids
    perfAge,          \* history: seconds since PCoreState was entered or a
                      \* PerformanceCoreMonitor event was last received in it
    readings,         \* history: what PdhGetFormattedCounterValue returned for
                      \* each core of the read loop under way, per monitor
    observed,         \* the monitors whose readings are kept in the history
    sent_paused,      \* history: events a worker has sent since a counting
                      \* caller's pause() put its monitor to rest, per monitor
                      \* (NoCount: resumed since, or never paused)
    called            \* history: the last call made by a caller that drives
                      \* the monitors on their own, the last two calls made
                      \* by a caller that drives the pool on its own

vars == <<pc, current_state, elapsed, waited, recv_result, receiver, active, worker, slept,
          read_index, fully_consumed_cores, handles, should_stop, spin,
          cores_to_monitor, core_ids, perfAge, readings, observed, called,
          sent_paused>>

govVars == <<pc, current_state, elapsed, waited, recv_result>>
poolVars == <<handles, should_stop, spin, core_ids>>
monVars == <<active, worker, slept, read_index, fully_consumed_cores, cores_to_monitor,
             readings, observed, sent_paused>>

\* ------------------------------------------------------------- history
\* A call in the history: the method, whether the call found the object
\* already as the call leaves it, whether it found a worker waiting on the
\* condvar, and a turn bit that tells a call from the same call before it.
Call(op, redundant, waiter) ==
    [op |-> op, redundant |-> redundant, waiter |-> waiter,
     turn |-> IF called = <<>> THEN 0 ELSE 1 - called[Len(called)].turn]

\* The history after one more call: the last call ...
Noted(op, redundant, waiter) == <<Call(op, redundant, waiter)>>

\* ... or the last two calls.
NotedAfter(op, redundant) ==
    IF called = <<>> THEN <<Call(op, redundant, FALSE)>>
    ELSE <<called[Len(called)], Call(op, redundant, FALSE)>>

\* ------------------------------------------------------------- channel
\* A Sender clone lives in each worker closure; the one made in new() is
\* dropped when new() returns.
SenderAlive(m) == worker[m] # "dead"
Disconnected == \A m \in Monitors : ~SenderAlive(m)

\* ------------------------------------------------------------- monitors
\* CpuMonitor::pause
Pause(act, m) == [act EXCEPT ![m] = FALSE]

\* CpuMonitor::resume: set the flag, notify_one wakes a worker blocked on the condvar
ResumeActive(act, m) == [act EXCEPT ![m] = TRUE]
\* a resume() that sends a worker in the middle of a cycle back to the loop head
ResumeWorker_RestartsLoop(w, m) ==
    IF w[m] \in {"blocked", "collect", "sleep", "read"}
    THEN [w EXCEPT ![m] = "check"]
    ELSE w

\* a resume() without its notify_one
ResumeWorker_NoNotify(w, m) == w

ResumeWorker(w, m) == IF w[m] = "blocked" THEN [w EXCEPT ![m] = "check"] ELSE w

\* ------------------------------------------------------------- pool
LiveSpinners == {c \in DOMAIN spin : spin[c] = "spinning"}
UnjoinedSpinners == {c \in DOMAIN spin : spin[c] # "none"}

Init ==
    /\ pc = "ecore_call"
    /\ current_state = "ECoreState"
    /\ elapsed = NoTime
    /\ waited = NoTime
    /\ recv_result = [call |-> "none", result |-> "none"]
    /\ receiver = <<>>
    /\ active = [m \in Monitors |-> m = EffMon]
    /\ worker = [m \in Monitors |-> "setup"]
    /\ slept = [m \in Monitors |-> NoTime]
    /\ read_index = [m \in Monitors |-> 0]
    /\ fully_consumed_cores = [m \in Monitors |-> <<>>]
    /\ handles = <<>>
    /\ should_stop = FALSE
    /\ spin = [c \in ECoreSet |-> "none"]
    /\ cores_to_monitor = [m \in Monitors |-> IF m = EffMon THEN e_core_ids
                                                             ELSE rest_of_cores]
    /\ core_ids = e_core_ids
    /\ perfAge = NoTime
    /\ readings = [m \in Monitors |-> <<>>]
    /\ sent_paused = [m \in Monitors |-> NoCount]
    /\ observed = {}
    /\ called = <<>>

\* the first k core ids
FirstCores(k) == [i \in 1..k |-> i - 1]

\* CoreStateController::new(e_core_ids, rest_of_cores) for every efficiency
\* core list the caller can pass, the empty one of non-hybrid hardware included.
TopologyInit ==
    /\ pc = "ecore_call"
    /\ current_state = "ECoreState"
    /\ elapsed = NoTime
    /\ waited = NoTime
    /\ recv_result = [call |-> "none", result |-> "none"]
    /\ receiver = <<>>
    /\ active = [m \in Monitors |-> m = EffMon]
    /\ worker = [m \in Monitors |-> "setup"]
    /\ slept = [m \in Monitors |-> NoTime]
    /\ read_index = [m \in Monitors |-> 0]
    /\ fully_consumed_cores = [m \in Monitors |-> <<>>]
    /\ handles = <<>>
    /\ should_stop = FALSE
    /\ spin = [c \in ECoreSet |-> "none"]
    /\ \E n \in 0..NumECores :
         /\ cores_to_monitor = [m \in Monitors |-> IF m = EffMon THEN FirstCores(n)
                                                                  ELSE rest_of_cores]
         /\ core_ids = FirstCores(n)
    /\ perfAge = NoTime
    /\ readings = [m \in Monitors |-> <<>>]
    /\ sent_paused = [m \in Monitors |-> NoCount]
    /\ observed = {}
    /\ called = <<>>

\* every list of distinct core ids out of S
CoreLists(S) ==
    UNION {{f \in [1..n -> S] : \A i, j \in 1..n : i # j => f[i] # f[j]} :
           n \in 0..Cardinality(S)}

\* The SpinLooper on its own: built by SpinLooper::new with any list of
\* distinct core ids, then driven by a caller of start() and stop_and_join()
\* in any order.  No governor; the monitors are built and never started.
PoolInit ==
    /\ pc = "pool_caller"
    /\ current_state = "none"
    /\ elapsed = NoTime
    /\ waited = NoTime
    /\ recv_result = [call |-> "none", result |-> "none"]
    /\ receiver = <<>>
    /\ active = [m \in Monitors |-> m = EffMon]
    /\ worker = [m \in Monitors |-> "none"]
    /\ slept = [m \in Monitors |-> NoTime]
    /\ read_index = [m \in Monitors |-> 0]
    /\ fully_consumed_cores = [m \in Monitors |-> <<>>]
    /\ handles = <<>>
    /\ should_stop = FALSE
    /\ spin = [c \in 0..(NumSampled - 1) |-> "none"]
    /\ cores_to_monitor = [m \in Monitors |-> <<>>]
    /\ core_ids \in CoreLists(0..(NumSampled - 1))
    /\ perfAge = NoTime
    /\ readings = [m \in Monitors |-> <<>>]
    /\ sent_paused = [m \in Monitors |-> NoCount]
    /\ observed = {}
    /\ called = <<>>

\* One CpuMonitor on its own: built by CpuMonitor::new with the first k cores
\* and started, its events taken off the channel by the caller; the other
\* monitor is built and never started.  No governor, no pool.
SamplerInit ==
    /\ pc = "caller"
    /\ current_state = "none"
    /\ elapsed = NoTime
    /\ waited = NoTime
    /\ recv_result = [call |-> "none", result |-> "none"]
    /\ receiver = <<>>
    /\ \E m \in Monitors, k \in 0..NumSampled, a \in BOOLEAN :
         /\ observed = {m}
         /\ worker = [n \in Monitors |-> IF n = m THEN "setup" ELSE "none"]
         /\ cores_to_monitor = [n \in Monitors |-> IF n = m THEN FirstCores(k) ELSE <<>>]
         /\ active = [n \in Monitors |-> IF n = m THEN a ELSE FALSE]
    /\ slept = [m \in Monitors |-> NoTime]
    /\ read_index = [m \in Monitors |-> 0]
    /\ fully_consumed_cores = [m \in Monitors |-> <<>>]
    /\ handles = <<>>
    /\ should_stop = FALSE
    /\ spin = [c \in ECoreSet |-> "none"]
    /\ core_ids = <<>>
    /\ perfAge = NoTime
    /\ readings = [m \in Monitors |-> <<>>]
    /\ sent_paused = [m \in Monitors |-> NoCount]
    /\ called = <<>>

\* The two CpuMonitors of CoreStateController::new on their own: started,
\* then driven by a caller of pause(), resume() and of the channel's recv().
CallerInit ==
    /\ pc = "caller"
    /\ current_state = "none"
    /\ elapsed = NoTime
    /\ waited = NoTime
    /\ recv_result = [call |-> "none", result |-> "none"]
    /\ receiver = <<>>
    /\ active = [m \in Monitors |-> m = EffMon]
    /\ worker = [m \in Monitors |-> "setup"]
    /\ slept = [m \in Monitors |-> NoTime]
    /\ read_index = [m \in Monitors |-> 0]
    /\ fully_consumed_cores = [m \in Monitors |-> <<>>]
    /\ handles = <<>>
    /\ should_stop = FALSE
    /\ spin = [c \in ECoreSet |-> "none"]
    /\ cores_to_monitor = [m \in Monitors |-> IF m = EffMon THEN e_core_ids
                                                             ELSE rest_of_cores]
    /\ core_ids = <<>>
    /\ perfAge = NoTime
    /\ readings = [m \in Monitors |-> <<>>]
    /\ sent_paused = [m \in Monitors |-> NoCount]
    /\ observed = {}
    /\ called = <<>>

\* ------------------------------------------------------ sampler threads
\* What PdhGetFormattedCounterValue can hand back for one core.
ReadingCases ==
    {[status |-> "ERROR_SUCCESS", cstatus |-> "PDH_CSTATUS_VALID_DATA", value |-> 999],
     [status |-> "ERROR_SUCCESS", cstatus |-> "PDH_CSTATUS_VALID_DATA", value |-> 1000],
     [status |-> "ERROR_SUCCESS", cstatus |-> "PDH_CSTATUS_NEW_DATA", value |-> 1001],
     [status |-> "ERROR_SUCCESS", cstatus |-> "PDH_CSTATUS_OTHER", value |-> 1000],
     [status |-> "PDH_CALC_NEGATIVE_VALUE", cstatus |-> "PDH_CSTATUS_OTHER", value |-> 0],
     [status |-> "PDH_CALC_NEGATIVE_DENOMINATOR", cstatus |-> "PDH_CSTATUS_OTHER", value |-> 0],
     [status |-> "PDH_INVALID_ARGUMENT", cstatus |-> "PDH_CSTATUS_OTHER", value |-> 0],
     [status |-> "PDH_INVALID_DATA", cstatus |-> "PDH_CSTATUS_OTHER", value |-> 0],
     [status |-> "PDH_OTHER_FAILURE", cstatus |-> "PDH_CSTATUS_OTHER", value |-> 0]}

\* One round of the per-core loop: what it does to fully_consumed_cores.
\* "continue" and a reading below 100 leave the list alone, an unclassified
\* status panics.
\* A read loop without its PDH_INVALID_DATA branch
ReadPanics_NoInvalidData(r) ==
    /\ r.status \notin {"PDH_CALC_NEGATIVE_VALUE", "PDH_CALC_NEGATIVE_DENOMINATOR"}
    /\ r.status # "PDH_INVALID_ARGUMENT"
    /\ r.status # "ERROR_SUCCESS"

ReadPanics(r) ==
    /\ r.status \notin {"PDH_CALC_NEGATIVE_VALUE", "PDH_CALC_NEGATIVE_DENOMINATOR"}
    /\ r.status # "PDH_INVALID_ARGUMENT"
    /\ r.status # "PDH_INVALID_DATA"
    /\ r.status # "ERROR_SUCCESS"

\* A read loop that takes only a value above 100 for full load
ReadOne_Above(acc, core_index, r) ==
    IF r.status \in {"PDH_CALC_NEGATIVE_VALUE", "PDH_CALC_NEGATIVE_DENOMINATOR"}
    THEN acc
    ELSE IF r.status = "PDH_INVALID_ARGUMENT"
    THEN acc
    ELSE IF r.status = "PDH_INVALID_DATA"
    THEN acc
    ELSE IF /\ r.cstatus \in {"PDH_CSTATUS_VALID_DATA", "PDH_CSTATUS_NEW_DATA"}
            /\ r.value > FullLoad
    THEN Append(acc, core_index)
    ELSE acc

ReadOne(acc, core_index, r) ==
    IF r.status \in {"PDH_CALC_NEGATIVE_VALUE", "PDH_CALC_NEGATIVE_DENOMINATOR"}
    THEN acc
    ELSE IF r.status = "PDH_INVALID_ARGUMENT"
    THEN acc
    ELSE IF r.status = "PDH_INVALID_DATA"
    THEN acc
    ELSE IF /\ r.cstatus \in {"PDH_CSTATUS_VALID_DATA", "PDH_CSTATUS_NEW_DATA"}
            /\ r.value >= FullLoad
    THEN Append(acc, core_index)
    ELSE acc

\* The history of a read loop: one more reading, for an observed monitor.
\* One more event sent by the worker of m, counted if m has been paused.
Counted(m) ==
    IF sent_paused[m] = NoCount THEN sent_paused
    ELSE [sent_paused EXCEPT ![m] = Min(@ + 1, SentCap)]

Logged(m, log, r) == IF m \in observed THEN Append(log, r) ELSE log

\* PdhOpenQueryW and one PdhAddCounterW per core; any failure panics the worker.
MonSetup(m) ==
    /\ worker[m] = "setup"
    /\ \E ok \in BOOLEAN :
         worker' = [worker EXCEPT ![m] = IF ok THEN "check" ELSE "dead"]
    /\ UNCHANGED <<govVars, receiver, active, slept, read_index,
                   fully_consumed_cores, poolVars, perfAge, called, cores_to_monitor,
                   readings, observed, sent_paused>>

\* wait_for_active that returns without looking at the flag
MonWaitForActive_NoWait(m) ==
    /\ worker[m] = "check"
    /\ worker' = [worker EXCEPT ![m] = "collect"]
    /\ UNCHANGED <<govVars, receiver, active, slept, read_index,
                   fully_consumed_cores, poolVars, perfAge, called, cores_to_monitor,
                   readings, observed, sent_paused>>

\* wait_for_active: under the mutex, return if active, else wait on the condvar.
MonWaitForActive(m) ==
    /\ worker[m] = "check"
    /\ worker' = [worker EXCEPT ![m] = IF active[m] THEN "collect" ELSE "blocked"]
    /\ UNCHANGED <<govVars, receiver, active, slept, read_index,
                   fully_consumed_cores, poolVars, perfAge, called, cores_to_monitor,
                   readings, observed, sent_paused>>

\* wait_for_active with an if for its while: no second look at the flag
MonSpuriousWake_NoRecheck(m) ==
    /\ worker[m] = "blocked"
    /\ worker' = [worker EXCEPT ![m] = "collect"]
    /\ UNCHANGED <<govVars, receiver, active, slept, read_index,
                   fully_consumed_cores, poolVars, perfAge, called, cores_to_monitor,
                   readings, observed, sent_paused>>

\* Condvar::wait may return without a notification; the while loop re-checks.
MonSpuriousWake(m) ==
    /\ worker[m] = "blocked"
    /\ worker' = [worker EXCEPT ![m] = "check"]
    /\ UNCHANGED <<govVars, receiver, active, slept, read_index,
                   fully_consumed_cores, poolVars, perfAge, called, cores_to_monitor,
                   readings, observed, sent_paused>>

\* First PdhCollectQueryData of a cycle, then the one second sleep begins.
MonCollectFirst(m) ==
    /\ worker[m] = "collect"
    /\ \E ok \in BOOLEAN :
         IF ok
         THEN /\ worker' = [worker EXCEPT ![m] = "sleep"]
              /\ slept' = [slept EXCEPT ![m] = 0]
         ELSE /\ worker' = [worker EXCEPT ![m] = "dead"]
              /\ UNCHANGED slept
    /\ UNCHANGED <<govVars, receiver, active, read_index, fully_consumed_cores,
                   poolVars, perfAge, called, cores_to_monitor,
                   readings, observed, sent_paused>>

\* The sleep is over: second PdhCollectQueryData, the read loop starts.
MonCollectSecond(m) ==
    /\ worker[m] = "sleep"
    /\ slept[m] >= SampleSecs
    /\ slept' = [slept EXCEPT ![m] = NoTime]
    /\ readings' = [readings EXCEPT ![m] = <<>>]
    /\ \E ok \in BOOLEAN :
         IF ok
         THEN /\ worker' = [worker EXCEPT ![m] = "read"]
              /\ read_index' = [read_index EXCEPT ![m] = 0]
              /\ fully_consumed_cores' = [fully_consumed_cores EXCEPT ![m] = <<>>]
         ELSE /\ worker' = [worker EXCEPT ![m] = "dead"]
              /\ UNCHANGED <<read_index, fully_consumed_cores>>
    /\ UNCHANGED <<govVars, receiver, active, poolVars, perfAge, called,
                   cores_to_monitor,
                   observed, sent_paused>>

\* One round of the read loop, for the core at read_index.
MonReadCore(m) ==
    /\ worker[m] = "read"
    /\ read_index[m] < Len(cores_to_monitor[m])
    /\ \E r \in ReadingCases :
         IF ReadPanics(r)
         THEN /\ worker' = [worker EXCEPT ![m] = "dead"]
              /\ read_index' = [read_index EXCEPT ![m] = 0]
              /\ fully_consumed_cores' = [fully_consumed_cores EXCEPT ![m] = <<>>]
              /\ readings' = [readings EXCEPT ![m] = Logged(m, @, r)]
         ELSE /\ read_index' = [read_index EXCEPT ![m] = @ + 1]
              /\ readings' = [readings EXCEPT ![m] = Logged(m, @, r)]
              /\ fully_consumed_cores' =
                     [fully_consumed_cores EXCEPT
                         ![m] = ReadOne(@, cores_to_monitor[m][read_index[m] + 1], r)]
              /\ UNCHANGED worker
    /\ UNCHANGED <<govVars, receiver, active, slept, poolVars, perfAge, called,
                   cores_to_monitor,
                   observed, sent_paused>>

\* A loop that sends its event without looking at is_empty()
MonSendEvent_AlwaysSends(m) ==
    /\ worker[m] = "read"
    /\ read_index[m] = Len(cores_to_monitor[m])
    /\ Len(receiver) < MaxQueue
    /\ receiver' = Append(receiver, [tag |-> EventTag(m),
                                     cores |-> fully_consumed_cores[m]])
    /\ sent_paused' = Counted(m)
    /\ worker' = [worker EXCEPT ![m] = "check"]
    /\ read_index' = [read_index EXCEPT ![m] = 0]
    /\ fully_consumed_cores' = [fully_consumed_cores EXCEPT ![m] = <<>>]
    /\ readings' = [readings EXCEPT ![m] = <<>>]
    /\ UNCHANGED <<govVars, active, slept, poolVars, perfAge, called, cores_to_monitor,
                   observed>>

\* After the loop: one event if the list is not empty, then the next cycle.
MonSendEvent(m) ==
    /\ worker[m] = "read"
    /\ read_index[m] = Len(cores_to_monitor[m])
    /\ IF fully_consumed_cores[m] # <<>>
       THEN /\ Len(receiver) < MaxQueue
            /\ receiver' = Append(receiver, [tag |-> EventTag(m),
                                             cores |-> fully_consumed_cores[m]])
            /\ sent_paused' = Counted(m)
       ELSE UNCHANGED <<receiver, sent_paused>>
    /\ worker' = [worker EXCEPT ![m] = "check"]
    /\ read_index' = [read_index EXCEPT ![m] = 0]
    /\ fully_consumed_cores' = [fully_consumed_cores EXCEPT ![m] = <<>>]
    /\ readings' = [readings EXCEPT ![m] = <<>>]
    /\ UNCHANGED <<govVars, active, slept, poolVars, perfAge, called, cores_to_monitor,
                   observed>>

\* ------------------------------------------------------ keep-alive threads
\* Spawn loop of SpinLooper::start: the next core id without a thread.
NextToSpawn == core_ids[Len(handles) + 1]

\* A spinning thread sees should_stop and returns.
SpinExit(c) ==
    /\ spin[c] = "spinning"
    /\ should_stop
    /\ spin' = [spin EXCEPT ![c] = "exited"]
    /\ UNCHANGED <<govVars, receiver, monVars, handles, should_stop, perfAge, called,
                   core_ids>>

\* ------------------------------------------------------ governor: ECoreState
\* run() calls handle(), which calls recv(): the last result is gone.
ECoreCall ==
    /\ pc = "ecore_call"
    /\ recv_result' = [call |-> "none", result |-> "none"]
    /\ pc' = "ecore_recv"
    /\ UNCHANGED <<current_state, elapsed, waited, receiver, monVars, poolVars,
                   perfAge, called>>

ECoreRecvEfficiency ==
    /\ pc = "ecore_recv"
    /\ receiver # <<>>
    /\ Head(receiver).tag = "EfficiencyCoreMonitor"
    /\ receiver' = Tail(receiver)
    /\ pc' = "p_pause"
    /\ recv_result' = [call |-> "recv", result |-> "Ok(EfficiencyCoreMonitor)"]
    /\ UNCHANGED <<current_state, elapsed, waited, monVars, poolVars, perfAge, called>>

\* ECoreState::handle that switches on any event
ECoreRecvOther_Switches ==
    /\ pc = "ecore_recv"
    /\ receiver # <<>>
    /\ Head(receiver).tag # "EfficiencyCoreMonitor"
    /\ receiver' = Tail(receiver)
    /\ pc' = "p_pause"
    /\ recv_result' = [call |-> "recv", result |-> "Ok(PerformanceCoreMonitor)"]
    /\ UNCHANGED <<current_state, elapsed, waited, monVars, poolVars, perfAge, called>>

ECoreRecvOther ==
    /\ pc = "ecore_recv"
    /\ receiver # <<>>
    /\ Head(receiver).tag # "EfficiencyCoreMonitor"
    /\ receiver' = Tail(receiver)
    /\ pc' = "ecore_call"
    /\ recv_result' = [call |-> "recv", result |-> "Ok(PerformanceCoreMonitor)"]
    /\ UNCHANGED <<current_state, elapsed, waited, monVars, poolVars, perfAge, called>>

ECoreRecvErr ==
    /\ pc = "ecore_recv"
    /\ receiver = <<>>
    /\ Disconnected
    /\ pc' = "returned_err"
    /\ recv_result' = [call |-> "recv", result |-> "Err(Disconnected)"]
    /\ UNCHANGED <<current_state, elapsed, waited, receiver, monVars, poolVars,
                   perfAge, called>>

\* ------------------------------------------------ switch_to_pcore_state
\* switch_to_pcore_state that pauses the performance monitor instead
SwitchPPause_PausesPerformance ==
    /\ pc = "p_pause"
    /\ active' = Pause(active, PerfMon)
    /\ pc' = "p_resume"
    /\ UNCHANGED <<recv_result, current_state, elapsed, waited, receiver, worker, slept,
                   read_index, fully_consumed_cores, poolVars, perfAge, called,
                   cores_to_monitor,
                   readings, observed, sent_paused>>

\* switch_to_pcore_state without its efficiency_monitor.pause()
SwitchPPause_NoPause ==
    /\ pc = "p_pause"
    /\ pc' = "p_resume"
    /\ UNCHANGED <<recv_result, current_state, elapsed, waited, receiver, monVars,
                   poolVars, perfAge, called>>

SwitchPPause ==
    /\ pc = "p_pause"
    /\ active' = Pause(active, EffMon)
    /\ pc' = "p_resume"
    /\ UNCHANGED <<recv_result, current_state, elapsed, waited, receiver, worker, slept,
                   read_index, fully_consumed_cores, poolVars, perfAge, called,
                   cores_to_monitor,
                   readings, observed, sent_paused>>

SwitchPResume ==
    /\ pc = "p_resume"
    /\ active' = ResumeActive(active, PerfMon)
    /\ worker' = ResumeWorker(worker, PerfMon)
    /\ pc' = "p_start"
    /\ UNCHANGED <<recv_result, current_state, elapsed, waited, receiver, slept, read_index,
                   fully_consumed_cores, poolVars, perfAge, called, cores_to_monitor,
                   readings, observed, sent_paused>>

\* SpinLooper::start without its assertion
SpinStartAssert_NoAssert ==
    /\ pc = "p_start"
    /\ pc' = "p_spawn"
    /\ UNCHANGED <<recv_result, current_state, elapsed, waited, receiver, monVars, poolVars,
                   perfAge, called>>

\* SpinLooper::start: the assertion, then one thread spawned per loop round.
SpinStartAssert ==
    /\ pc = "p_start"
    /\ pc' = IF handles = <<>> THEN "p_spawn" ELSE "panicked"
    /\ UNCHANGED <<recv_result, current_state, elapsed, waited, receiver, monVars, poolVars,
                   perfAge, called>>

SpinSpawn ==
    /\ pc = "p_spawn"
    /\ Len(handles) < Len(core_ids)
    /\ spin' = [spin EXCEPT ![NextToSpawn] = "spinning"]
    /\ handles' = Append(handles, NextToSpawn)
    /\ UNCHANGED <<govVars, receiver, monVars, should_stop, perfAge, called, core_ids>>

\* Box::new(PCoreState::new()) is returned and becomes the current state:
\* last_event_time is Instant::now().
PCoreNew ==
    /\ pc = "p_spawn"
    /\ Len(handles) = Len(core_ids)
    /\ elapsed' = 0
    /\ current_state' = "PCoreState"
    /\ perfAge' = 0
    /\ pc' = "pcore_call"
    /\ UNCHANGED <<recv_result, waited, receiver, monVars, poolVars, called>>

\* ------------------------------------------------------ governor: PCoreState
\* run() calls handle(), which calls recv_timeout(10 s): the wait is measured
\* from here, the last result is gone.
PCoreCall ==
    /\ pc = "pcore_call"
    /\ waited' = 0
    /\ recv_result' = [call |-> "none", result |-> "none"]
    /\ pc' = "pcore_recv"
    /\ UNCHANGED <<current_state, elapsed, receiver, monVars, poolVars, perfAge, called>>

\* PCoreState::handle that refreshes last_event_time and goes on waiting for
\* the deadline it already has
PCoreRecvPerformance_KeepsDeadline ==
    /\ pc = "pcore_recv"
    /\ receiver # <<>>
    /\ Head(receiver).tag = "PerformanceCoreMonitor"
    /\ receiver' = Tail(receiver)
    /\ elapsed' = 0
    /\ perfAge' = 0
    /\ recv_result' = [call |-> "recv_timeout", result |-> "Ok(PerformanceCoreMonitor)"]
    /\ UNCHANGED <<pc, waited, current_state, monVars, poolVars, called>>

PCoreRecvPerformance ==
    /\ pc = "pcore_recv"
    /\ receiver # <<>>
    /\ Head(receiver).tag = "PerformanceCoreMonitor"
    /\ receiver' = Tail(receiver)
    /\ elapsed' = 0
    /\ perfAge' = 0
    /\ waited' = NoTime
    /\ pc' = "pcore_call"
    /\ recv_result' = [call |-> "recv_timeout", result |-> "Ok(PerformanceCoreMonitor)"]
    /\ UNCHANGED <<current_state, monVars, poolVars, called>>

\* PCoreState::handle that makes the elapsed-time check on an efficiency event
\* as well
PCoreRecvEfficiency_ChecksElapsed ==
    /\ pc = "pcore_recv"
    /\ receiver # <<>>
    /\ Head(receiver).tag = "EfficiencyCoreMonitor"
    /\ receiver' = Tail(receiver)
    /\ waited' = NoTime
    /\ pc' = IF elapsed >= HysteresisSecs THEN "e_pause" ELSE "pcore_call"
    /\ recv_result' = [call |-> "recv_timeout", result |-> "Ok(EfficiencyCoreMonitor)"]
    /\ UNCHANGED <<current_state, elapsed, monVars, poolVars, perfAge, called>>

\* PCoreState::handle that answers an efficiency event by switching back
PCoreRecvEfficiency_SwitchesBack ==
    /\ pc = "pcore_recv"
    /\ receiver # <<>>
    /\ Head(receiver).tag = "EfficiencyCoreMonitor"
    /\ receiver' = Tail(receiver)
    /\ waited' = NoTime
    /\ pc' = "e_pause"
    /\ recv_result' = [call |-> "recv_timeout", result |-> "Ok(EfficiencyCoreMonitor)"]
    /\ UNCHANGED <<current_state, elapsed, monVars, poolVars, perfAge, called>>

\* PCoreState::handle that refreshes last_event_time on an efficiency event
PCoreRecvEfficiency_Refreshes ==
    /\ pc = "pcore_recv"
    /\ receiver # <<>>
    /\ Head(receiver).tag = "EfficiencyCoreMonitor"
    /\ receiver' = Tail(receiver)
    /\ elapsed' = 0
    /\ waited' = NoTime
    /\ pc' = "pcore_call"
    /\ recv_result' = [call |-> "recv_timeout", result |-> "Ok(EfficiencyCoreMonitor)"]
    /\ UNCHANGED <<current_state, monVars, poolVars, perfAge, called>>

PCoreRecvEfficiency ==
    /\ pc = "pcore_recv"
    /\ receiver # <<>>
    /\ Head(receiver).tag = "EfficiencyCoreMonitor"
    /\ receiver' = Tail(receiver)
    /\ waited' = NoTime
    /\ pc' = "pcore_call"
    /\ recv_result' = [call |-> "recv_timeout", result |-> "Ok(EfficiencyCoreMonitor)"]
    /\ UNCHANGED <<current_state, elapsed, monVars, poolVars, perfAge, called>>

PCoreTimeout ==
    /\ pc = "pcore_recv"
    /\ receiver = <<>>
    /\ ~Disconnected
    /\ waited >= RecvTimeoutSecs
    /\ waited' = NoTime
    /\ pc' = IF elapsed >= HysteresisSecs THEN "e_pause" ELSE "pcore_call"
    /\ recv_result' = [call |-> "recv_timeout", result |-> "Err(Timeout)"]
    /\ UNCHANGED <<current_state, elapsed, receiver, monVars, poolVars,
                   perfAge, called>>

\* PCoreState::handle that takes every Err of recv_timeout for a timeout
PCoreRecvErr_AsTimeout ==
    /\ pc = "pcore_recv"
    /\ receiver = <<>>
    /\ Disconnected
    /\ waited' = NoTime
    /\ pc' = IF elapsed >= HysteresisSecs THEN "e_pause" ELSE "pcore_call"
    /\ recv_result' = [call |-> "recv_timeout", result |-> "Err(Disconnected)"]
    /\ UNCHANGED <<current_state, elapsed, receiver, monVars, poolVars, perfAge, called>>

PCoreRecvErr ==
    /\ pc = "pcore_recv"
    /\ receiver = <<>>
    /\ Disconnected
    /\ waited' = NoTime
    /\ pc' = "returned_err"
    /\ recv_result' = [call |-> "recv_timeout", result |-> "Err(Disconnected)"]
    /\ UNCHANGED <<current_state, elapsed, receiver, monVars, poolVars,
                   perfAge, called>>

\* ------------------------------------------------ switch_to_ecore_state
\* switch_to_ecore_state without its performance_monitor.pause()
SwitchEPause_NoPause ==
    /\ pc = "e_pause"
    /\ pc' = "e_resume"
    /\ UNCHANGED <<recv_result, current_state, elapsed, waited, receiver, monVars, poolVars,
                   perfAge, called>>

SwitchEPause ==
    /\ pc = "e_pause"
    /\ active' = Pause(active, PerfMon)
    /\ pc' = "e_resume"
    /\ UNCHANGED <<recv_result, current_state, elapsed, waited, receiver, worker, slept,
                   read_index, fully_consumed_cores, poolVars, perfAge, called,
                   cores_to_monitor,
                   readings, observed, sent_paused>>

\* switch_to_ecore_state that returns without its spin_looper.stop_and_join()
SwitchEResume_SkipsStop ==
    /\ pc = "e_resume"
    /\ active' = ResumeActive(active, EffMon)
    /\ worker' = ResumeWorker(worker, EffMon)
    /\ current_state' = "ECoreState"
    /\ elapsed' = NoTime
    /\ perfAge' = NoTime
    /\ pc' = "ecore_call"
    /\ UNCHANGED <<recv_result, waited, receiver, slept, read_index,
                   fully_consumed_cores, poolVars, cores_to_monitor, readings,
                   observed, sent_paused, called>>

SwitchEResume ==
    /\ pc = "e_resume"
    /\ active' = ResumeActive(active, EffMon)
    /\ worker' = ResumeWorker(worker, EffMon)
    /\ pc' = "e_stop"
    /\ UNCHANGED <<recv_result, current_state, elapsed, waited, receiver, slept, read_index,
                   fully_consumed_cores, poolVars, perfAge, called, cores_to_monitor,
                   readings, observed, sent_paused>>

\* stop_and_join that never stores true into should_stop
SpinStop_NoStore ==
    /\ pc = "e_stop"
    /\ pc' = "e_join"
    /\ UNCHANGED <<recv_result, current_state, elapsed, waited, receiver, monVars,
                   poolVars, perfAge, called>>

\* SpinLooper::stop_and_join: store(true), join every handle, store(false).
SpinStop ==
    /\ pc = "e_stop"
    /\ should_stop' = TRUE
    /\ pc' = "e_join"
    /\ UNCHANGED <<recv_result, current_state, elapsed, waited, receiver, monVars, handles,
                   spin, perfAge, called, core_ids>>

\* stop_and_join that drops a handle without waiting for its thread
SpinJoin_NoWait ==
    /\ pc = "e_join"
    /\ handles # <<>>
    /\ handles' = Tail(handles)
    /\ UNCHANGED <<govVars, receiver, monVars, should_stop, spin, core_ids, perfAge, called>>

SpinJoin ==
    /\ pc = "e_join"
    /\ handles # <<>>
    /\ spin[Head(handles)] = "exited"
    /\ spin' = [spin EXCEPT ![Head(handles)] = "none"]
    /\ handles' = Tail(handles)
    /\ UNCHANGED <<govVars, receiver, monVars, should_stop, perfAge, called, core_ids>>

\* The flag is reset, Box::new(ECoreState) is returned, the PCoreState is dropped.
ECoreNew ==
    /\ pc = "e_join"
    /\ handles = <<>>
    /\ should_stop' = FALSE
    /\ current_state' = "ECoreState"
    /\ elapsed' = NoTime
    /\ perfAge' = NoTime
    /\ pc' = "ecore_call"
    /\ UNCHANGED <<recv_result, waited, receiver, monVars, handles, spin, core_ids, called>>

\* ------------------------------------------------------------- time
\* One second passes on every running stopwatch.
Tick ==
    /\ elapsed' = Older(elapsed, MaxAge)
    /\ waited' = Older(waited, RecvTimeoutSecs)
    /\ perfAge' = Older(perfAge, MaxAge)
    /\ slept' = [m \in Monitors |-> Older(slept[m], SampleSecs)]
    /\ UNCHANGED <<pc, current_state, recv_result, receiver, active, worker, read_index,
                   fully_consumed_cores, poolVars, cores_to_monitor,
                   readings, observed, sent_paused, called>>

\* ------------------------------------------------------------- properties
\* The governor is in a state, outside switch_to_pcore_state and
\* switch_to_ecore_state: in a handle() or back from run().
Settled ==
    pc \in {"ecore_call", "ecore_recv", "pcore_call", "pcore_recv", "returned_err"}

\* C1 as stated: in every reachable state, the states inside the two switch
\* functions included, exactly one active flag is true, the efficiency
\* monitor's iff the state is ECoreState, the performance monitor's iff it is
\* PCoreState.
C1_ExactlyOneActiveEverywhere ==
    /\ active[EffMon] # active[PerfMon]
    /\ active[EffMon] <=> current_state = "ECoreState"
    /\ active[PerfMon] <=> current_state = "PCoreState"

\* C1 amended: never both flags true; exactly one is true except between the
\* pause() and the resume() of a switch, where none is; and outside the switch
\* functions the flag that is true is the one of the governor's state.
C1_ActiveMatchesState ==
    /\ ~(active[EffMon] /\ active[PerfMon])
    /\ pc \notin {"p_resume", "e_resume"} => active[EffMon] # active[PerfMon]
    /\ Settled => /\ active[EffMon] <=> current_state = "ECoreState"
                  /\ active[PerfMon] <=> current_state = "PCoreState"

C1_Witness ==
    /\ pc = "pcore_recv"
    /\ current_state = "PCoreState"
    /\ active[PerfMon]
    /\ ~active[EffMon]

\* C2: with the governor in ECoreState no keep-alive thread is alive, with the
\* governor in PCoreState one is alive per efficiency core id, whatever the
\* samplers, the clock and the spinning threads have done.
C2_KeepAliveCount ==
    /\ (Settled /\ current_state = "ECoreState") => Cardinality(LiveSpinners) = 0
    /\ (Settled /\ current_state = "PCoreState") =>
           /\ Cardinality(LiveSpinners) = Len(core_ids)
           /\ LiveSpinners = SeqRange(core_ids)

C2_Witness ==
    /\ pc = "pcore_recv"
    /\ core_ids # <<>>
    /\ LiveSpinners = SeqRange(core_ids)

\* C3: the governor leaves PCoreState for switch_to_ecore_state only when ten
\* seconds or more have passed since it entered PCoreState and since the last
\* PerformanceCoreMonitor event it received there.
C3_NoEarlyReversion ==
    [][(pc # "e_pause" /\ pc' = "e_pause") => perfAge >= HysteresisSecs]_vars

C3_Witness ==
    /\ pc = "e_pause"
    /\ recv_result.result = "Err(Timeout)"
    /\ perfAge >= HysteresisSecs

\* C4: in PCoreState the governor is never still waiting on the channel when
\* more than ten seconds have passed since it entered the state or last
\* received a PerformanceCoreMonitor event there, whatever else it received.
\* Stated for a governor that is scheduled at once (SpecPrompt).
C4_RevertsAfterQuietWindow ==
    (current_state = "PCoreState" /\ pc \in {"pcore_call", "pcore_recv"})
        => perfAge <= HysteresisSecs

\* The governor takes the event at the head of the channel in this step.
Receives(tag) ==
    /\ receiver # <<>>
    /\ Head(receiver).tag = tag
    /\ receiver' = Tail(receiver)

InSwitchToPCore == pc \in {"p_pause", "p_resume", "p_start", "p_spawn"}

\* C5: in ECoreState an EfficiencyCoreMonitor event, whatever its core list,
\* starts switch_to_pcore_state; the switch can only end in PCoreState, and
\* when it ends the efficiency monitor is paused, the performance monitor is
\* active, one thread per efficiency core id has been started and
\* last_event_time is the time of that step.
C5_EfficiencyEventSwitches ==
    [][/\ (pc = "ecore_recv" /\ Receives("EfficiencyCoreMonitor")) => pc' = "p_pause"
       /\ InSwitchToPCore => (InSwitchToPCore' \/ pc' = "pcore_call")
       /\ (InSwitchToPCore /\ ~InSwitchToPCore') =>
              /\ current_state' = "PCoreState"
              /\ ~active'[EffMon]
              /\ active'[PerfMon]
              /\ handles' = core_ids
              /\ LiveSpinners' = SeqRange(core_ids)
              /\ Cardinality(LiveSpinners') = Len(core_ids)
              /\ elapsed' = 0]_vars

C5_Witness ==
    /\ pc = "pcore_call"
    /\ recv_result = [call |-> "recv", result |-> "Ok(EfficiencyCoreMonitor)"]
    /\ current_state = "PCoreState"
    /\ LiveSpinners = SeqRange(core_ids)
    /\ core_ids # <<>>
    /\ elapsed = 0

\* C6: in ECoreState a PerformanceCoreMonitor event changes nothing: the
\* governor stays in ECoreState, both active flags stay as they are and no
\* keep-alive thread is started.
C6_PerformanceEventIgnored ==
    [][(pc = "ecore_recv" /\ Receives("PerformanceCoreMonitor")) =>
           /\ pc' = "ecore_call"
           /\ UNCHANGED <<current_state, active, handles, spin, should_stop, elapsed>>
           /\ LiveSpinners' = {}]_vars

C6_Witness ==
    /\ pc = "ecore_call"
    /\ current_state = "ECoreState"
    /\ recv_result = [call |-> "recv", result |-> "Ok(PerformanceCoreMonitor)"]
    /\ active[EffMon]
    /\ LiveSpinners = {}

\* C7: in PCoreState an EfficiencyCoreMonitor event leaves the governor in
\* PCoreState with last_event_time, both active flags and the pool as they
\* are; a PerformanceCoreMonitor event sets last_event_time to the time of
\* its receipt, and nothing else sets it while the state lasts.
C7_OnlyPerformanceEventRefreshes ==
    [][/\ (pc = "pcore_recv" /\ Receives("EfficiencyCoreMonitor")) =>
              /\ pc' = "pcore_call"
              /\ UNCHANGED <<current_state, elapsed, active, handles, spin, should_stop>>
       /\ (pc = "pcore_recv" /\ Receives("PerformanceCoreMonitor")) =>
              /\ pc' = "pcore_call"
              /\ elapsed' = 0
              /\ UNCHANGED <<current_state, active, handles, spin, should_stop>>
       /\ (current_state = "PCoreState" /\ current_state' = "PCoreState"
              /\ elapsed' < elapsed) =>
              (pc = "pcore_recv" /\ Receives("PerformanceCoreMonitor"))]_vars

C7_Witness ==
    /\ pc = "pcore_call"
    /\ current_state = "PCoreState"
    /\ recv_result = [call |-> "recv_timeout", result |-> "Ok(EfficiencyCoreMonitor)"]
    /\ elapsed > 0

InSwitchToECore == pc \in {"e_pause", "e_resume", "e_stop", "e_join"}

\* C8: switch_to_ecore_state always comes to its end when the governor and
\* the spinning threads keep being scheduled, and it ends only when every
\* keep-alive thread has exited and been joined: with the governor back in
\* ECoreState::handle no spinning thread of the PCoreState period is left.
C8_ReverseTransitionJoinsAll ==
    /\ [](pc \in {"ecore_call", "ecore_recv"} =>
              (UnjoinedSpinners = {} /\ handles = <<>>))
    /\ [][(InSwitchToECore /\ ~InSwitchToECore') =>
              (pc' = "ecore_call" /\ UnjoinedSpinners = {} /\ ~should_stop')]_vars
    /\ (InSwitchToECore ~> (pc = "ecore_recv" /\ UnjoinedSpinners = {}))

C8_Witness ==
    /\ pc = "ecore_call"
    /\ recv_result = [call |-> "recv_timeout", result |-> "Err(Timeout)"]
    /\ current_state = "ECoreState"
    /\ UnjoinedSpinners = {}

\* C9: when the channel is disconnected while the governor waits on it, in
\* ECoreState or in PCoreState, run() returns the error: the governor does
\* not switch, does not take the disconnect for a timeout, and does nothing
\* afterwards.
C9_DisconnectEndsRun ==
    [][/\ (pc \in {"ecore_recv", "pcore_recv"} /\ receiver = <<>> /\ Disconnected
              /\ <<pc, recv_result>> # <<pc', recv_result'>>) =>
              /\ pc' = "returned_err"
              /\ recv_result'.result = "Err(Disconnected)"
              /\ UNCHANGED <<current_state, active, handles, spin, should_stop>>
       /\ pc = "returned_err" =>
              /\ pc' = "returned_err"
              /\ UNCHANGED <<current_state, recv_result, active, handles, spin,
                             should_stop, receiver>>]_vars

C9_Witness ==
    /\ pc = "returned_err"
    /\ recv_result = [call |-> "recv_timeout", result |-> "Err(Disconnected)"]
    /\ current_state = "PCoreState"

\* C10: once a sampler thread has died of a failure that is not transient, the
\* governor stops running: it is not left waiting on the channel for ever.
C10_SamplerFailureStopsGovernor ==
    (\E m \in Monitors : worker[m] = "dead") ~> (pc \in {"returned_err", "panicked"})

\* ---- the read loop, as the claims put it
\* A transient anomaly of one core's counter.
Transient(r) ==
    r.status \in {"PDH_CALC_NEGATIVE_VALUE", "PDH_CALC_NEGATIVE_DENOMINATOR",
                  "PDH_INVALID_ARGUMENT", "PDH_INVALID_DATA"}

\* The counter has a reading, and the reading is 100 or more.
Saturated(r) ==
    /\ r.status = "ERROR_SUCCESS"
    /\ r.cstatus \in {"PDH_CSTATUS_VALID_DATA", "PDH_CSTATUS_NEW_DATA"}
    /\ r.value >= FullLoad

\* The cores, in monitoring order, whose logged reading is saturated.
SaturatedCores(cores, log) ==
    LET at == SelectSeq([i \in 1..Len(log) |-> i], LAMBDA i : Saturated(log[i]))
    IN  [j \in 1..Len(at) |-> cores[at[j]]]

\* Monitor m takes one round of its read loop in this step.
ReadsCore(m) == Len(readings'[m]) = Len(readings[m]) + 1

\* Monitor m leaves its read loop for the next cycle in this step.
EndsCycle(m) == worker[m] = "read" /\ worker'[m] = "check"

\* C11: a transient anomaly of one core's counter does not stop the sampler:
\* the loop goes on to the next core with the saturated list as it was, and
\* a cycle that met an anomaly still sends its event, with exactly the
\* saturated cores and none of the anomalous ones, when a core is saturated.
C11_TransientAnomalySkipsCore ==
    [][\A m \in observed :
         /\ (ReadsCore(m) /\ Transient(readings'[m][Len(readings'[m])])) =>
                /\ worker'[m] = "read"
                /\ read_index'[m] = read_index[m] + 1
                /\ fully_consumed_cores'[m] = fully_consumed_cores[m]
         /\ (EndsCycle(m) /\ \E i \in 1..Len(readings[m]) : Transient(readings[m][i])) =>
                LET sent == SaturatedCores(cores_to_monitor[m], readings[m])
                IN  /\ Len(readings[m]) = Len(cores_to_monitor[m])
                    /\ \A i \in 1..Len(readings[m]) :
                          Transient(readings[m][i]) =>
                              cores_to_monitor[m][i] \notin SeqRange(sent)
                    /\ sent # <<>> =>
                          receiver' = Append(receiver, [tag |-> EventTag(m),
                                                        cores |-> sent])]_vars

\* One core failed, two other cores read 100% or more: the list is those two.
C11_Witness ==
    \E m \in observed :
        /\ worker[m] = "read"
        /\ read_index[m] = 3
        /\ Len(readings[m]) = 3
        /\ Transient(readings[m][2])
        /\ Saturated(readings[m][1])
        /\ Saturated(readings[m][3])
        /\ fully_consumed_cores[m] = <<cores_to_monitor[m][1], cores_to_monitor[m][3]>>

\* The event at the tail of the channel after this step.
LastSent == receiver'[Len(receiver')]

\* C12: whatever the readings of a cycle, the list the loop builds, and the
\* list the event of the cycle carries, is the subsequence of the monitor's
\* cores_to_monitor whose reading is 100 or more, in monitoring order: no
\* core with a reading below 100 and no core of another monitor is in it,
\* and every event in the channel lists cores of its own monitor only.
C12_EventListsSaturatedCores ==
    /\ [](\A m \in observed : worker[m] = "read" =>
             /\ Len(readings[m]) = read_index[m]
             /\ fully_consumed_cores[m] =
                    SaturatedCores(cores_to_monitor[m], readings[m]))
    /\ [](\A i \in 1..Len(receiver) : \A m \in Monitors :
             receiver[i].tag = EventTag(m) =>
                 SeqRange(receiver[i].cores) \subseteq SeqRange(cores_to_monitor[m]))
    /\ [][\A m \in observed : EndsCycle(m) =>
             LET sent == SaturatedCores(cores_to_monitor[m], readings[m])
             IN  /\ Len(readings[m]) = Len(cores_to_monitor[m])
                 /\ \A i \in 1..Len(readings[m]) :
                       readings[m][i].value < FullLoad =>
                           cores_to_monitor[m][i] \notin SeqRange(sent)
                 /\ sent # <<>> => (Len(receiver') = Len(receiver) + 1
                                      /\ LastSent.cores = sent)]_vars

\* Readings of 99.9, 100.0 and 100.1: the list is the second and third core.
C12_Witness ==
    \E m \in observed :
        /\ worker[m] = "read"
        /\ Len(readings[m]) = 3
        /\ readings[m][1].value = FullLoad - 1
        /\ readings[m][1].status = "ERROR_SUCCESS"
        /\ readings[m][2].value = FullLoad
        /\ readings[m][3].value = FullLoad + 1
        /\ fully_consumed_cores[m] = <<cores_to_monitor[m][2], cores_to_monitor[m][3]>>

\* C13: a cycle that ends with a saturated list that is not empty sends one
\* event, with that list and with the variant of its own monitor; a cycle
\* that ends with an empty list sends nothing; and nothing else ever puts an
\* event on the channel.
C13_OneEventPerSaturatedCycle ==
    [][/\ \A m \in Monitors : EndsCycle(m) =>
             IF fully_consumed_cores[m] # <<>>
             THEN /\ Len(receiver') = Len(receiver) + 1
                  /\ \A i \in 1..Len(receiver) : receiver'[i] = receiver[i]
                  /\ LastSent.cores = fully_consumed_cores[m]
                  /\ m = EffMon => LastSent.tag = "EfficiencyCoreMonitor"
                  /\ m = PerfMon => LastSent.tag = "PerformanceCoreMonitor"
             ELSE receiver' = receiver
       /\ Len(receiver') > Len(receiver) => \E m \in Monitors : EndsCycle(m)]_vars

C13_Witness ==
    /\ worker[PerfMon] = "check"
    /\ worker[EffMon] \in {"sleep", "read"}
    /\ receiver # <<>>
    /\ receiver[Len(receiver)].tag = "PerformanceCoreMonitor"
    /\ receiver[Len(receiver)].cores = cores_to_monitor[PerfMon]

\* C14: when the controller is built with an empty efficiency core list, no
\* event is ever sent, the governor never leaves ECoreState::handle for
\* switch_to_pcore_state (it waits in recv, or run() has returned the
\* disconnect of two dead samplers) and no keep-alive thread is ever started.
C14_EmptyEfficiencySetStays ==
    cores_to_monitor[EffMon] = <<>> =>
        /\ receiver = <<>>
        /\ current_state = "ECoreState"
        /\ pc \in {"ecore_call", "ecore_recv", "returned_err"}
        /\ recv_result.result \in {"none", "Err(Disconnected)"}
        /\ active = [m \in Monitors |-> m = EffMon]
        /\ handles = <<>>
        /\ UnjoinedSpinners = {}

\* The efficiency sampler is at the end of a cycle over no core at all.
C14_Witness ==
    /\ cores_to_monitor[EffMon] = <<>>
    /\ worker[EffMon] = "read"
    /\ read_index[EffMon] = 0
    /\ pc = "ecore_recv"
    /\ worker[PerfMon] = "blocked"

\* C15: start() called with handles not empty fails in its assertion, before
\* anything else: no handle is added and no thread is started, then or later.
C15_DoubleStartAsserts ==
    [][/\ (pc = "p_start" /\ handles # <<>> /\ pc' # pc) =>
              /\ pc' = "panicked"
              /\ UNCHANGED <<handles, spin, should_stop>>
       /\ pc = "panicked" =>
              /\ pc' = "panicked"
              /\ handles' = handles
              /\ LiveSpinners' \subseteq LiveSpinners]_vars

C15_Witness ==
    /\ pc = "panicked"
    /\ handles # <<>>
    /\ handles = core_ids
    /\ LiveSpinners = SeqRange(core_ids)

\* C16: stop_and_join() returns with no handle, no thread left and the stop
\* flag false; the flag is true only inside stop_and_join(), so a start(), in
\* any round, returns with one thread per core id, and outside
\* stop_and_join() every thread that has a handle is spinning: none has
\* exited.
C16_PoolRestartable ==
    /\ [](pc \in {"pool_caller", "p_start", "p_spawn", "panicked"} =>
             /\ ~should_stop
             /\ LiveSpinners = SeqRange(handles)
             /\ UnjoinedSpinners = SeqRange(handles))
    /\ [][/\ (pc = "e_join" /\ pc' = "pool_caller") =>
                (handles' = <<>> /\ ~should_stop' /\ UnjoinedSpinners' = {})
          /\ (pc = "p_spawn" /\ pc' = "pool_caller") =>
                (/\ handles' = core_ids
                 /\ LiveSpinners' = SeqRange(core_ids)
                 /\ Cardinality(LiveSpinners') = Len(core_ids))]_vars

\* A start() after a stop_and_join() that had threads to stop has returned.
C16_Witness ==
    /\ pc = "pool_caller"
    /\ Len(called) = 2
    /\ called[1].op = "stop_and_join"
    /\ ~called[1].redundant
    /\ called[2].op = "start"
    /\ ~called[2].redundant
    /\ Len(core_ids) >= 2
    /\ handles = core_ids
    /\ LiveSpinners = SeqRange(core_ids)
    /\ ~should_stop

\* C17: in a run of the governor start() is called only from ECoreState with
\* the pool stopped (no handle, no thread, flag false), stop_and_join() only
\* from PCoreState with the threads of the one start() before it all
\* spinning; so the calls alternate, start() first, and the assertion of
\* start() never fails.
C17_StartStopAlternate ==
    /\ [](pc # "panicked")
    /\ [][/\ (pc # "p_start" /\ pc' = "p_start") =>
                /\ current_state = "ECoreState"
                /\ handles = <<>>
                /\ UnjoinedSpinners = {}
                /\ ~should_stop
          /\ (pc # "e_stop" /\ pc' = "e_stop") =>
                /\ current_state = "PCoreState"
                /\ handles = core_ids
                /\ handles # <<>>
                /\ LiveSpinners = SeqRange(core_ids)
          /\ (pc = "p_spawn" /\ pc' # "p_spawn") => current_state' = "PCoreState"
          /\ (pc = "e_join" /\ pc' # "e_join") => current_state' = "ECoreState"]_vars

\* stop_and_join() is about to run on the threads of the start() before it.
C17_Witness ==
    /\ pc = "e_stop"
    /\ current_state = "PCoreState"
    /\ handles = core_ids
    /\ handles # <<>>
    /\ LiveSpinners = SeqRange(core_ids)
    /\ ~should_stop

\* The caller makes a call in this step that finds the flag already as the
\* call leaves it: a resume() of an active monitor, a pause() of a paused one.
RedundantCall ==
    /\ pc = "caller"
    /\ called' # called
    /\ called'[Len(called')].redundant

\* C18: a resume() of an active monitor and a pause() of a paused monitor
\* change nothing: both flags, the two worker threads and where each of them
\* is in its loop, and the channel are as they were, however often the call
\* is repeated; there is one worker thread per monitor, always.
C18_PauseResumeIdempotent ==
    /\ [](DOMAIN worker = Monitors)
    /\ [][RedundantCall =>
             UNCHANGED <<active, worker, slept, read_index, fully_consumed_cores,
                         receiver, cores_to_monitor>>]_vars

\* resume() has been called, after other calls, on a monitor that was active,
\* in the middle of its cycle.
C18_Witness ==
    /\ called # <<>>
    /\ called[1].op = "resume"
    /\ called[1].redundant
    /\ called[1].turn = 1
    /\ \E m \in Monitors : active[m] /\ worker[m] = "sleep" /\ slept[m] = 0

\* Monitor m takes the first snapshot of a cycle in this step.
StartsCycle(m) == worker[m] = "collect" /\ worker'[m] # "collect"

\* C19 as stated: a sampler never takes the first snapshot of a cycle while
\* the active flag of its monitor is false.
C19_NoCycleStartWhilePaused ==
    [][\A m \in Monitors : StartsCycle(m) => active[m]]_vars

\* C19 amended: a sampler takes the first snapshot of a cycle only after
\* wait_for_active, in the same round of its loop, has seen the flag true
\* under the mutex; the flag may have been cleared since.
C19_CycleStartAfterActiveSeen ==
    [][\A m \in Monitors :
         /\ (worker[m] # "collect" /\ worker'[m] = "collect") =>
                (worker[m] = "check" /\ active[m])
         /\ (worker[m] # "sleep" /\ worker'[m] = "sleep") => StartsCycle(m)
         /\ (worker[m] = "blocked" /\ worker'[m] # "blocked") =>
                worker'[m] = "check"]_vars

\* The efficiency sampler is back from wait_for_active, which saw the flag
\* true, and the governor has paused the monitor before the first snapshot.
C19_Witness ==
    /\ worker[EffMon] = "collect"
    /\ ~active[EffMon]
    /\ pc = "p_resume"

\* C20: no wake-up is lost.  A worker is never waiting on the condvar with
\* the flag true, whatever the order of resume() and of the worker's check
\* and wait; and a worker that is in wait_for_active with the flag true takes
\* the first snapshot of a cycle, unless the monitor is paused again first.
C20_NoLostWakeup ==
    /\ [](\A m \in Monitors : worker[m] = "blocked" => ~active[m])
    /\ \A m \in Monitors :
          (active[m] /\ worker[m] \in {"check", "blocked"})
              ~> (worker[m] \in {"sleep", "dead"} \/ ~active[m])

\* The performance sampler was waiting on the condvar when the one resume()
\* so far was called; it has left wait_for_active and taken a first snapshot.
C20_Witness ==
    /\ called = <<[op |-> "resume", redundant |-> FALSE, waiter |-> TRUE, turn |-> 0]>>
    /\ active[PerfMon]
    /\ worker[PerfMon] = "sleep"

\* C21 as stated: in every reachable state, the steps of switch_to_ecore_state
\* included, no keep-alive thread is spinning while the efficiency monitor's
\* active flag is true.
C21_NoKeepAliveWhileEfficiencyActive ==
    active[EffMon] => LiveSpinners = {}

\* switch_to_ecore_state has resumed the efficiency monitor and has not yet
\* returned from stop_and_join.
StoppingPool == pc \in {"e_stop", "e_join"}

\* C21 amended: no keep-alive thread is spinning while the efficiency
\* monitor's active flag is true, except inside switch_to_ecore_state between
\* its efficiency_monitor.resume() and the return of its stop_and_join().
C21_NoKeepAliveOutsideStop ==
    (active[EffMon] /\ ~StoppingPool) => LiveSpinners = {}

\* The reverse transition is over: the efficiency monitor is active again and
\* the threads that were spinning are gone.
C21_Witness ==
    /\ pc = "ecore_call"
    /\ recv_result.result = "Err(Timeout)"
    /\ core_ids # <<>>
    /\ active[EffMon]
    /\ LiveSpinners = {}

\* recv_timeout returns Err(Timeout) in this step.
TimesOut == pc = "pcore_recv" /\ recv_result'.result = "Err(Timeout)"

\* C22: last_event_time is never younger than the wait under way, so whenever
\* recv_timeout returns Timeout ten seconds or more have passed since
\* last_event_time and the governor goes to switch_to_ecore_state: the branch
\* that stays in PCoreState after a Timeout is never taken.
C22_TimeoutAlwaysReverts ==
    /\ [](pc = "pcore_recv" => elapsed >= waited)
    /\ [][TimesOut => (elapsed >= HysteresisSecs /\ pc' = "e_pause")]_vars

\* A Timeout has sent the governor into switch_to_ecore_state, more than ten
\* seconds after last_event_time.
C22_Witness ==
    /\ pc = "e_pause"
    /\ recv_result.result = "Err(Timeout)"
    /\ elapsed > HysteresisSecs

\* The governor enters switch_to_ecore_state in this step.
Reverts == pc # "e_pause" /\ pc' = "e_pause"

\* recv_timeout returns an event in this step.
ReceivesInPCore == pc = "pcore_recv" /\ Len(receiver') < Len(receiver)

\* C23: the governor enters switch_to_ecore_state only from a recv_timeout
\* that has waited its ten seconds on an empty channel and returns Timeout;
\* an event of either variant ends the wait without a reversion, and the next
\* handle() starts a wait of ten seconds from zero.
C23_RevertOnlyAfterFullWait ==
    /\ [][Reverts => /\ pc = "pcore_recv"
                     /\ receiver = <<>>
                     /\ waited >= RecvTimeoutSecs
                     /\ recv_result'.result = "Err(Timeout)"]_vars
    /\ [][ReceivesInPCore => (pc' = "pcore_call" /\ waited' = NoTime)]_vars
    /\ [][(pc = "pcore_call" /\ pc' # pc) => (pc' = "pcore_recv" /\ waited' = 0)]_vars

\* An EfficiencyCoreMonitor event has been received in PCoreState ten seconds
\* or more after last_event_time: the governor has not reverted and is about
\* to wait again.
C23_Witness ==
    /\ pc = "pcore_call"
    /\ recv_result = [call |-> "recv_timeout", result |-> "Ok(EfficiencyCoreMonitor)"]
    /\ elapsed >= HysteresisSecs

\* C24: from the return of pause() on a monitor to its next resume() the
\* flag stays false and the worker sends at most one event, the one of the
\* cycle it was in; once it has sent it, the worker is at wait_for_active or
\* waiting on the condvar, in no further cycle.
C24_OneEventAfterPause ==
    \A m \in Monitors :
        /\ sent_paused[m] # NoCount => ~active[m]
        /\ sent_paused[m] <= 1
        /\ sent_paused[m] = 1 => worker[m] \in {"check", "blocked"}

\* A worker has sent the event of the cycle that pause() found under way and
\* is now waiting on the condvar.
C24_Witness ==
    \E m \in Monitors :
        /\ sent_paused[m] = 1
        /\ worker[m] = "blocked"
        /\ ~active[m]

Governor ==
    \/ ECoreCall \/ ECoreRecvEfficiency \/ ECoreRecvOther \/ ECoreRecvErr
    \/ SwitchPPause \/ SwitchPResume \/ SpinStartAssert \/ SpinSpawn \/ PCoreNew
    \/ PCoreCall \/ PCoreRecvPerformance \/ PCoreRecvEfficiency \/ PCoreTimeout
    \/ PCoreRecvErr
    \/ SwitchEPause \/ SwitchEResume \/ SpinStop \/ SpinJoin \/ ECoreNew

\* The worker thread of one monitor.
Worker(m) ==
    \/ MonSetup(m) \/ MonWaitForActive(m) \/ MonSpuriousWake(m)
    \/ MonCollectFirst(m) \/ MonCollectSecond(m) \/ MonReadCore(m)
    \/ MonSendEvent(m)

Samplers == \E m \in Monitors : Worker(m)

Spinners == \E c \in DOMAIN spin : SpinExit(c)

Next == Governor \/ Samplers \/ Spinners \/ Tick

Spec == Init /\ [][Next]_vars

TopologySpec == TopologyInit /\ [][Next]_vars

\* The governor thread and every spinning thread keep being scheduled.
FairSpec ==
    /\ Spec
    /\ WF_vars(Governor)
    /\ \A c \in ECoreSet : WF_vars(SpinExit(c))

\* The governor thread is blocked: in recv with nothing to receive, in
\* recv_timeout before its deadline, in join on a running thread, or gone.
GovernorBlocked ==
    \/ pc \in {"returned_err", "panicked"}
    \/ pc = "ecore_recv" /\ receiver = <<>> /\ ~Disconnected
    \/ pc = "pcore_recv" /\ receiver = <<>> /\ ~Disconnected
                         /\ waited < RecvTimeoutSecs
    \/ pc = "e_join" /\ handles # <<>> /\ spin[Head(handles)] # "exited"

\* Time passes only while the governor is blocked: it runs as soon as it can.
TickPrompt == GovernorBlocked /\ Tick

NextPrompt == Governor \/ Samplers \/ Spinners \/ TickPrompt

\* Every thread keeps being scheduled, and the clock keeps running.
FairAllSpec ==
    /\ FairSpec
    /\ \A m \in Monitors : WF_vars(Worker(m))
    /\ WF_vars(Tick)

SpecPrompt == Init /\ [][NextPrompt]_vars

\* ------------------------------------------- the pool on its own
PoolCallStart ==
    /\ pc = "pool_caller"
    /\ pc' = "p_start"
    /\ called' = NotedAfter("start", handles # <<>>)
    /\ UNCHANGED <<recv_result, current_state, elapsed, waited, receiver, monVars,
                   poolVars, perfAge>>

\* every thread is spawned: start() returns
PoolStartReturn ==
    /\ pc = "p_spawn"
    /\ Len(handles) = Len(core_ids)
    /\ pc' = "pool_caller"
    /\ UNCHANGED <<recv_result, current_state, elapsed, waited, receiver, monVars,
                   poolVars, perfAge, called>>

PoolCallStop ==
    /\ pc = "pool_caller"
    /\ pc' = "e_stop"
    /\ called' = NotedAfter("stop_and_join", handles = <<>>)
    /\ UNCHANGED <<recv_result, current_state, elapsed, waited, receiver, monVars,
                   poolVars, perfAge>>

\* stop_and_join that leaves should_stop set
PoolStopReturn_KeepsFlag ==
    /\ pc = "e_join"
    /\ handles = <<>>
    /\ pc' = "pool_caller"
    /\ UNCHANGED <<recv_result, current_state, elapsed, waited, receiver, monVars,
                   should_stop, handles, spin, core_ids, perfAge, called>>

\* every handle is joined: the flag is reset and stop_and_join() returns
PoolStopReturn ==
    /\ pc = "e_join"
    /\ handles = <<>>
    /\ should_stop' = FALSE
    /\ pc' = "pool_caller"
    /\ UNCHANGED <<recv_result, current_state, elapsed, waited, receiver, monVars,
                   handles, spin, core_ids, perfAge, called>>

PoolCaller ==
    \/ PoolCallStart \/ SpinStartAssert \/ SpinSpawn \/ PoolStartReturn
    \/ PoolCallStop \/ SpinStop \/ SpinJoin \/ PoolStopReturn

PoolNext == PoolCaller \/ Spinners

PoolSpec == PoolInit /\ [][PoolNext]_vars

\* ------------------------------------------- the monitors on their own
\* The caller takes the oldest event off the channel.
CallerRecv ==
    /\ pc = "caller"
    /\ receiver # <<>>
    /\ receiver' = Tail(receiver)
    /\ UNCHANGED <<govVars, monVars, poolVars, perfAge, called>>

CallerPause(m) ==
    /\ pc = "caller"
    /\ active' = Pause(active, m)
    /\ called' = Noted("pause", ~active[m], worker[m] = "blocked")
    /\ UNCHANGED <<govVars, receiver, worker, slept, read_index,
                   fully_consumed_cores, cores_to_monitor, readings, observed,
                   sent_paused, poolVars, perfAge>>

CallerResume(m) ==
    /\ pc = "caller"
    /\ active' = ResumeActive(active, m)
    /\ worker' = ResumeWorker(worker, m)
    /\ called' = Noted("resume", active[m], worker[m] = "blocked")
    /\ UNCHANGED <<govVars, receiver, slept, read_index, fully_consumed_cores,
                   cores_to_monitor, readings, observed, sent_paused, poolVars,
                   perfAge>>

Caller == CallerRecv \/ \E m \in Monitors : CallerPause(m) \/ CallerResume(m)

CallerNext == Caller \/ Samplers \/ Tick

CallerSpec == CallerInit /\ [][CallerNext]_vars

\* The steps a worker thread takes when it is scheduled; a return of
\* Condvar::wait without a notification is not among them: it may never come.
WorkerRuns(m) ==
    \/ MonSetup(m) \/ MonWaitForActive(m) \/ MonCollectFirst(m)
    \/ MonCollectSecond(m) \/ MonReadCore(m) \/ MonSendEvent(m)

\* The worker threads keep being scheduled.
FairCallerSpec == CallerSpec /\ \A m \in Monitors : WF_vars(WorkerRuns(m))

\* A caller whose calls start and end the count of sends: pause() starts it
\* unless it is running, resume() ends it.
CountedPause(m) ==
    /\ pc = "caller"
    /\ active' = Pause(active, m)
    /\ sent_paused' = IF sent_paused[m] = NoCount
                      THEN [sent_paused EXCEPT ![m] = 0]
                      ELSE sent_paused
    /\ UNCHANGED <<govVars, receiver, worker, slept, read_index,
                   fully_consumed_cores, cores_to_monitor, readings, observed,
                   poolVars, perfAge, called>>

CountedResume(m) ==
    /\ pc = "caller"
    /\ active' = ResumeActive(active, m)
    /\ worker' = ResumeWorker(worker, m)
    /\ sent_paused' = [sent_paused EXCEPT ![m] = NoCount]
    /\ UNCHANGED <<govVars, receiver, slept, read_index, fully_consumed_cores,
                   cores_to_monitor, readings, observed, poolVars, perfAge, called>>

PausedCaller == CallerRecv \/ \E m \in Monitors : CountedPause(m) \/ CountedResume(m)

PausedNext == PausedCaller \/ Samplers \/ Tick

PausedSpec == CallerInit /\ [][PausedNext]_vars

SamplerNext == CallerRecv \/ Samplers \/ Tick

SamplerSpec == SamplerInit /\ [][SamplerNext]_vars
====
